---------------------------- MODULE Spec2Model ----------------------------
(***************************************************************************)
(* Model of src/client/send.rs of deep_space: Contact::send_transaction,   *)
(* Contact::simulate_tx, Contact::send_tokens and Contact::wait_for_tx.    *)
(*                                                                         *)
(* Time is counted in ticks, TicksPerSecond ticks to the second.  An await *)
(* (an RPC round trip, a sleep) is a position of the caller; the clock     *)
(* advances only while the caller is suspended in one.                     *)
(***************************************************************************)
EXTENDS Integers, Sequences, FiniteSets, TLC

\* ------------------------------------------------------------------ bounds
TicksPerSecond == 2
\* largest timeout handed to wait_for_tx, in ticks
MaxTimeout == 6
\* largest round-trip time of one get_tx_by_hash call, in ticks
MaxLatency == 1
\* largest time a sleep may last beyond the requested second, in ticks
MaxJitter == 1

\* ------------------------------------------------------------- data types
\* Option<T>
None == << >>
Some(v) == << v >>

\* Result<T, E>, and the unwinding of a panic (no Result reaches the caller)
Ok(v) == [kind |-> "Ok", value |-> v]
Err(e) == [kind |-> "Err", error |-> e]
Panic == [kind |-> "Panic"]
NoResult == [kind |-> "Pending"]

\* TxResponse: the hash, the result code, and the part of raw_log that
\* matters here: 0 when the log names no required fee, else the fee it names.
Hashes == {"ABC", "DEF"}
Codes == {0, 5}
RawLogs == {0, 1}
TxResponse == [txhash : Hashes, code : Codes, raw_log : RawLogs]

\* tonic::Code, the three the poller names and two it does not
TonicCode == {"NotFound", "Unknown", "InvalidArgument", "PermissionDenied", "Unavailable"}

\* CosmosGrpcError
RequestError(code) == [variant |-> "RequestError", code |-> code]
ConnectionError == [variant |-> "ConnectionError"]
BadResponse == [variant |-> "BadResponse"]
TransactionFailed(tx, time) == [variant |-> "TransactionFailed", tx |-> tx, time |-> time]
InsufficientFees(fee_info) == [variant |-> "InsufficientFees", fee_info |-> fee_info]

\* Duration::from_secs(n)
from_secs(n) == n * TicksPerSecond

\* What the node holds about a transaction when it is asked for it: the
\* transaction with its result, nothing yet, a status, or no usable reply.
NodeAnswers ==
    {[kind |-> "Found", code |-> c, raw_log |-> g] : c \in Codes, g \in RawLogs}
    \cup {[kind |-> "Empty"]}
    \cup {[kind |-> "Status", code |-> c] : c \in TonicCode}
    \cup {[kind |-> "Connection"], [kind |-> "Decode"]}

\* line 147: self.get_tx_by_hash(hash).await, a Result<GetTxResponse,
\* CosmosGrpcError>, when the node's answer is a
get_tx_by_hash(hash, a) ==
    CASE a.kind = "Found" ->
            Ok([tx_response |-> Some([txhash |-> hash, code |-> a.code,
                                      raw_log |-> a.raw_log])])
      [] a.kind = "Empty" -> Ok([tx_response |-> None])
      [] a.kind = "Status" -> Err(RequestError(a.code))
      [] a.kind = "Connection" -> Err(ConnectionError)
      [] OTHER -> Err(BadResponse)

\* ------------------------------------------------- utils (crate::utils)
determine_min_fees_and_gas(response) ==
    IF response.raw_log = 0 THEN None ELSE Some([min_fee |-> response.raw_log])

check_tx_response(response) == response.code = 0

\* ------------------------------------------------------------ wait_for_tx
\* The frame of one wait_for_tx call.  queries, sleeps and queried record the
\* get_tx_by_hash calls made, the sleeps begun and the hash last asked for.
NoPoller ==
    [pc |-> "off", response |-> [txhash |-> "ABC", code |-> 0, raw_log |-> 0],
     timeout |-> 0, start |-> 0, wake |-> 0,
     queries |-> 0, sleeps |-> 0, queried |-> "", ret |-> NoResult]

\* LoopHead reporting the time measured at the deadline, not the timeout
LoopHead_Elapsed(p, t, l) ==
    IF t - p.start < p.timeout
    THEN [p EXCEPT !.pc = "query", !.queries = @ + 1,
                   !.queried = p.response.txhash, !.wake = t + l]
    ELSE [p EXCEPT !.pc = "returned",
                   !.ret = Err(TransactionFailed(p.response, t - p.start))]

\* LoopHead giving up one sleep interval before the timeout
LoopHead_EarlyDeadline(p, t, l) ==
    IF t - p.start < p.timeout - from_secs(1)
    THEN [p EXCEPT !.pc = "query", !.queries = @ + 1,
                   !.queried = p.response.txhash, !.wake = t + l]
    ELSE [p EXCEPT !.pc = "returned",
                   !.ret = Err(TransactionFailed(p.response, p.timeout))]

\* LoopHead with <= for < in the loop condition
LoopHead_Inclusive(p, t, l) ==
    IF t - p.start <= p.timeout
    THEN [p EXCEPT !.pc = "query", !.queries = @ + 1,
                   !.queried = p.response.txhash, !.wake = t + l]
    ELSE [p EXCEPT !.pc = "returned",
                   !.ret = Err(TransactionFailed(p.response, p.timeout))]

\* LoopHead that keeps waiting at the deadline instead of returning
LoopHead_Stalls(p, t, l) ==
    IF t - p.start < p.timeout
    THEN [p EXCEPT !.pc = "query", !.queries = @ + 1,
                   !.queried = p.response.txhash, !.wake = t + l]
    ELSE [p EXCEPT !.pc = "sleep", !.wake = t]

\* line 145 to the await of line 147, and lines 167-170: the loop condition
\* read at clock t; the query it starts takes l ticks
LoopHead(p, t, l) ==
    IF t - p.start < p.timeout
    THEN [p EXCEPT !.pc = "query", !.queries = @ + 1,
                   !.queried = p.response.txhash, !.wake = t + l]
    ELSE [p EXCEPT !.pc = "returned",
                   !.ret = Err(TransactionFailed(p.response, p.timeout))]

\* Retried without TonicCode::Unknown
Retried_NoUnknown(code) == code \in {"NotFound", "InvalidArgument"}

\* TonicCode::NotFound | TonicCode::Unknown | TonicCode::InvalidArgument => {}
Retried(code) == code \in {"NotFound", "Unknown", "InvalidArgument"}

\* Sleep of two seconds
Sleep_TwoSeconds(p, t, j) ==
    [p EXCEPT !.pc = "sleep", !.sleeps = @ + 1, !.wake = t + from_secs(2) + j]

\* Sleep of one tick for one second
Sleep_OneTick(p, t, j) ==
    [p EXCEPT !.pc = "sleep", !.sleeps = @ + 1, !.wake = t + 1 + j]

\* line 165: sleep(Duration::from_secs(1)), which lasts j ticks longer
Sleep(p, t, j) ==
    [p EXCEPT !.pc = "sleep", !.sleeps = @ + 1, !.wake = t + from_secs(1) + j]

\* MatchStatus returning the provisional response for the one found
MatchStatus_Provisional(p, status, t, j) ==
    IF status.kind = "Ok"
    THEN IF status.value.tx_response # None
         THEN [p EXCEPT !.pc = "returned", !.ret = Ok(p.response)]
         ELSE Sleep(p, t, j)
    ELSE IF status.error.variant = "RequestError"
         THEN IF Retried(status.error.code)
              THEN Sleep(p, t, j)
              ELSE [p EXCEPT !.pc = "returned",
                             !.ret = Err(TransactionFailed(p.response, t - p.start))]
         ELSE [p EXCEPT !.pc = "returned", !.ret = Err(status.error)]

\* MatchStatus reporting the timeout as the time of a fatal status
MatchStatus_FullTimeout(p, status, t, j) ==
    IF status.kind = "Ok"
    THEN IF status.value.tx_response # None
         THEN [p EXCEPT !.pc = "returned", !.ret = Ok(status.value.tx_response[1])]
         ELSE Sleep(p, t, j)
    ELSE IF status.error.variant = "RequestError"
         THEN IF Retried(status.error.code)
              THEN Sleep(p, t, j)
              ELSE [p EXCEPT !.pc = "returned",
                             !.ret = Err(TransactionFailed(p.response, p.timeout))]
         ELSE [p EXCEPT !.pc = "returned", !.ret = Err(status.error)]

\* MatchStatus treating every error as a fatal status
MatchStatus_WrapsError(p, status, t, j) ==
    IF status.kind = "Ok"
    THEN IF status.value.tx_response # None
         THEN [p EXCEPT !.pc = "returned", !.ret = Ok(status.value.tx_response[1])]
         ELSE Sleep(p, t, j)
    ELSE IF status.error.variant = "RequestError" /\ Retried(status.error.code)
         THEN Sleep(p, t, j)
         ELSE [p EXCEPT !.pc = "returned",
                        !.ret = Err(TransactionFailed(p.response, t - p.start))]

\* MatchStatus taking a reply without a tx_response for a success
MatchStatus_EmptyIsSuccess(p, status, t, j) ==
    IF status.kind = "Ok"
    THEN IF status.value.tx_response # None
         THEN [p EXCEPT !.pc = "returned", !.ret = Ok(status.value.tx_response[1])]
         ELSE [p EXCEPT !.pc = "returned", !.ret = Ok(p.response)]
    ELSE IF status.error.variant = "RequestError"
         THEN IF Retried(status.error.code)
              THEN Sleep(p, t, j)
              ELSE [p EXCEPT !.pc = "returned",
                             !.ret = Err(TransactionFailed(p.response, t - p.start))]
         ELSE [p EXCEPT !.pc = "returned", !.ret = Err(status.error)]

\* MatchStatus reading the loop condition once more when the query returns,
\* and returning the timeout failure for a reply that is late
MatchStatus_ChecksDeadline(p, status, t, j) ==
    IF t - p.start >= p.timeout
    THEN [p EXCEPT !.pc = "returned",
                   !.ret = Err(TransactionFailed(p.response, p.timeout))]
    ELSE IF status.kind = "Ok"
    THEN IF status.value.tx_response # None
         THEN [p EXCEPT !.pc = "returned", !.ret = Ok(status.value.tx_response[1])]
         ELSE Sleep(p, t, j)
    ELSE IF status.error.variant = "RequestError"
         THEN IF Retried(status.error.code)
              THEN Sleep(p, t, j)
              ELSE [p EXCEPT !.pc = "returned",
                             !.ret = Err(TransactionFailed(p.response, t - p.start))]
         ELSE [p EXCEPT !.pc = "returned", !.ret = Err(status.error)]

\* lines 148-165: the match on the query's status, read at clock t
MatchStatus(p, status, t, j) ==
    IF status.kind = "Ok"
    THEN IF status.value.tx_response # None
         THEN [p EXCEPT !.pc = "returned", !.ret = Ok(status.value.tx_response[1])]
         ELSE Sleep(p, t, j)
    ELSE IF status.error.variant = "RequestError"
         THEN IF Retried(status.error.code)
              THEN Sleep(p, t, j)
              ELSE [p EXCEPT !.pc = "returned",
                             !.ret = Err(TransactionFailed(p.response, t - p.start))]
         ELSE [p EXCEPT !.pc = "returned", !.ret = Err(status.error)]

\* wait_for_tx as a do-while loop: the first query is made before the loop
\* condition is read
wait_for_tx_QueryFirst(response, timeout, t, l) ==
    [NoPoller EXCEPT !.response = response, !.timeout = timeout, !.start = t,
                     !.pc = "query", !.queries = 1,
                     !.queried = response.txhash, !.wake = t + l]

\* lines 139-147: the call, up to its first await or its return
wait_for_tx(response, timeout, t, l) ==
    LoopHead([NoPoller EXCEPT !.response = response, !.timeout = timeout,
                              !.start = t], t, l)

\* ------------------------------------------------------- send_transaction
\* what txrpc.broadcast_tx(..).await can evaluate to
BroadcastOutcomes ==
    {Ok([tx_response |-> Some(r)]) : r \in TxResponse}
    \cup {Ok([tx_response |-> None])}
    \cup {Err(RequestError(c)) : c \in {"Unavailable", "InvalidArgument"}}

ConnectOutcomes == {Ok("channel"), Err(ConnectionError)}

\* Classify looking at the result code before the fees
Classify_CodeFirst(response) ==
    IF ~check_tx_response(response)
    THEN Err(TransactionFailed(response, from_secs(0)))
    ELSE IF determine_min_fees_and_gas(response) # None
         THEN Err(InsufficientFees(determine_min_fees_and_gas(response)[1]))
         ELSE Ok(response)

\* lines 47-55: the classification of a populated broadcast response
Classify(response) ==
    IF determine_min_fees_and_gas(response) # None
    THEN Err(InsufficientFees(determine_min_fees_and_gas(response)[1]))
    ELSE IF ~check_tx_response(response)
         THEN Err(TransactionFailed(response, from_secs(0)))
         ELSE Ok(response)

\* send_transaction broadcasting a second time after a failed broadcast
send_transaction_Retry(conn, reply) ==
    IF conn.kind = "Err" THEN [ret |-> Err(conn.error), rpcs |-> 0]
    ELSE IF reply.kind = "Err" THEN [ret |-> Err(reply.error), rpcs |-> 2]
    ELSE IF reply.value.tx_response = None THEN [ret |-> Panic, rpcs |-> 1]
    ELSE [ret |-> Classify(reply.value.tx_response[1]), rpcs |-> 1]

\* lines 37-56: what send_transaction evaluates to (ret) and the broadcast_tx
\* RPCs it issues on the way (rpcs), given what connect and broadcast_tx
\* evaluate to
send_transaction(conn, reply) ==
    IF conn.kind = "Err" THEN [ret |-> Err(conn.error), rpcs |-> 0]
    ELSE IF reply.kind = "Err" THEN [ret |-> Err(reply.error), rpcs |-> 1]
    ELSE IF reply.value.tx_response = None THEN [ret |-> Panic, rpcs |-> 1]
    ELSE [ret |-> Classify(reply.value.tx_response[1]), rpcs |-> 1]

\* ------------------------------------------------------------ simulate_tx
GasInfos == {[gas_used |-> 7]}

SimulateOutcomes ==
    {Ok([gas_info |-> Some(g)]) : g \in GasInfos}
    \cup {Ok([gas_info |-> None])}
    \cup {Err(RequestError(c)) : c \in {"Unavailable", "InvalidArgument"}}

\* lines 63-78: what simulate_tx evaluates to (ret) and the simulate RPCs it
\* issues on the way (rpcs)
simulate_tx(conn, reply) ==
    IF conn.kind = "Err" THEN [ret |-> Err(conn.error), rpcs |-> 0]
    ELSE IF reply.kind = "Err" THEN [ret |-> Err(reply.error), rpcs |-> 1]
    ELSE IF reply.value.gas_info = None THEN [ret |-> Panic, rpcs |-> 1]
    ELSE [ret |-> Ok(reply.value.gas_info[1]), rpcs |-> 1]

\* ------------------------------------------------------------------ state
VARIABLES
    now,        \* the clock (Instant::now()), in ticks
    pc,         \* where the caller is: "idle", "wait_for_tx", "done", "panicked"
    op,         \* the function the caller called
    result,     \* what that function returned to the caller
    poller,     \* the frame of the wait_for_tx call
    stub,       \* what the node answers to the next get_tx_by_hash
    replies,    \* the answers get_tx_by_hash has given to this poller, in order
    lag,        \* ticks spent in query round trips and in sleeping too long
    broadcasts, \* broadcast_tx RPCs issued
    simulates,  \* simulate RPCs issued
    twin,       \* a second run of the poller, fed the same answers with each
                \* absent one replaced by any other absent one
    entry,      \* the arguments wait_for_tx was called with, and the clock then
    sent,       \* what broadcast_tx evaluated to in send_transaction, or
                \* simulate in simulate_tx
    wait_timeout, \* the wait_timeout send_tokens was called with
    calls,      \* concurrent lifecycles: the wait_for_tx frame of each
    stubs,      \* what the node answers to the next get_tx_by_hash of each hash
    logs        \* what each lifecycle was given, asked, was answered and returned

concvars == <<calls, stubs, logs>>

vars == <<now, pc, op, result, poller, stub, replies, lag, broadcasts, simulates,
          twin, entry, sent, wait_timeout, calls, stubs, logs>>

\* the concurrent lifecycles and the transaction each is about
Calls == {1, 2}
HashOf(i) == IF i = 1 THEN "ABC" ELSE "DEF"

NoLog ==
    [stage |-> "idle", broadcasts |-> 0, entry |-> NoResult, asked |-> << >>,
     replies |-> << >>, at |-> 0, result |-> NoResult]

Init ==
    /\ now = 0
    /\ pc = "idle"
    /\ op = "none"
    /\ result = NoResult
    /\ poller = NoPoller
    /\ twin = NoPoller
    /\ stub \in NodeAnswers
    /\ replies = << >>
    /\ lag = 0
    /\ broadcasts = 0
    /\ simulates = 0
    /\ entry = NoResult
    /\ sent = NoResult
    /\ wait_timeout = None
    /\ calls = [i \in Calls |-> NoPoller]
    /\ stubs = [h \in Hashes |-> [kind |-> "Empty"]]
    /\ logs = [i \in Calls |-> NoLog]

\* ---------------------------------------------------------------- actions
\* the caller's position once a function has evaluated to r
After(r) == IF r = Panic THEN "panicked" ELSE "done"

\* the four answers that say the transaction is not there (yet), and the
\* answers that may stand for answer a in the twin run
AbsentAnswers ==
    {[kind |-> "Empty"], [kind |-> "Status", code |-> "NotFound"],
     [kind |-> "Status", code |-> "Unknown"],
     [kind |-> "Status", code |-> "InvalidArgument"]}
Swap(a) == IF a \in AbsentAnswers THEN AbsentAnswers ELSE {a}

\* the poller has moved to frame p and its twin to frame q: a return is
\* handed to the caller, an await leaves the caller inside wait_for_tx
Resume(p, q) ==
    /\ poller' = p
    /\ twin' = q
    /\ pc' = IF p.pc = "returned" THEN "done" ELSE "wait_for_tx"
    /\ result' = IF p.pc = "returned" THEN p.ret ELSE result

\* lines 139-147: wait_for_tx(response, timeout) is entered
Enter(response, timeout) ==
    \E l \in 0..MaxLatency :
        LET p == wait_for_tx(response, timeout, now, l) IN
        /\ Resume(p, p)
        /\ lag' = IF p.pc = "query" THEN lag + l ELSE lag
        /\ entry' = [kind |-> "Entered", response |-> response,
                     timeout |-> timeout, start |-> now]

\* the caller calls send_transaction(msg, mode)
CallSendTransaction ==
    /\ pc = "idle"
    /\ \E conn \in ConnectOutcomes, reply \in BroadcastOutcomes :
        LET r == send_transaction(conn, reply) IN
        /\ op' = "send_transaction"
        /\ broadcasts' = broadcasts + r.rpcs
        /\ sent' = IF r.rpcs = 0 THEN sent ELSE reply
        /\ result' = r.ret
        /\ pc' = After(r.ret)
    /\ UNCHANGED <<now, poller, twin, stub, replies, lag, simulates, entry,
                   wait_timeout, concvars>>

\* the caller calls simulate_tx(tx_parts)
CallSimulateTx ==
    /\ pc = "idle"
    /\ \E conn \in ConnectOutcomes, reply \in SimulateOutcomes :
        LET r == simulate_tx(conn, reply) IN
        /\ op' = "simulate_tx"
        /\ simulates' = simulates + r.rpcs
        /\ sent' = IF r.rpcs = 0 THEN sent ELSE reply
        /\ result' = r.ret
        /\ pc' = After(r.ret)
    /\ UNCHANGED <<now, poller, twin, stub, replies, lag, broadcasts, entry,
                   wait_timeout, concvars>>

\* the caller calls wait_for_tx(response, timeout)
CallWaitForTx ==
    /\ pc = "idle"
    /\ op' = "wait_for_tx"
    /\ \E response \in TxResponse, timeout \in 0..MaxTimeout :
        Enter(response, timeout)
    /\ UNCHANGED <<now, stub, replies, broadcasts, simulates, sent,
                   wait_timeout, concvars>>

\* AfterBroadcast going on to poll after a failed transaction
AfterBroadcast_PollsFailed(r, w) ==
    IF r.kind = "Ok"
    THEN IF w # None
         THEN [ret |-> NoResult, poll |-> Some([response |-> r.value, time |-> w[1]])]
         ELSE [ret |-> Ok(r.value), poll |-> None]
    ELSE IF r.kind = "Err" /\ r.error.variant = "TransactionFailed" /\ w # None
         THEN [ret |-> NoResult, poll |-> Some([response |-> r.error.tx, time |-> w[1]])]
         ELSE [ret |-> r, poll |-> None]

\* lines 124-133: what send_tokens does with r, the value of send_transaction,
\* and with wait_timeout w: return ret, or return what wait_for_tx(poll) does
AfterBroadcast(r, w) ==
    IF r.kind # "Ok" THEN [ret |-> r, poll |-> None]
    ELSE IF w # None
         THEN [ret |-> NoResult, poll |-> Some([response |-> r.value, time |-> w[1]])]
         ELSE [ret |-> Ok(r.value), poll |-> None]

\* lines 85-134: the caller calls send_tokens(.., wait_timeout); args is what
\* get_message_args and sign_std_msg (lines 119-121) evaluate to
CallSendTokens ==
    /\ pc = "idle"
    /\ op' = "send_tokens"
    /\ \E args \in {Ok("msg_bytes"), Err(ConnectionError)},
          conn \in ConnectOutcomes, reply \in BroadcastOutcomes,
          w \in {None} \cup {Some(t) : t \in 0..MaxTimeout} :
        LET r == send_transaction(conn, reply)
            a == AfterBroadcast(r.ret, w)
        IN
        /\ wait_timeout' = w
        /\ IF args.kind = "Err"
           THEN /\ result' = Err(args.error)
                /\ pc' = "done"
                /\ UNCHANGED <<poller, twin, lag, broadcasts, entry, sent>>
           ELSE /\ broadcasts' = broadcasts + r.rpcs
                /\ sent' = IF r.rpcs = 0 THEN sent ELSE reply
                /\ IF a.poll = None
                   THEN /\ result' = a.ret
                        /\ pc' = After(a.ret)
                        /\ UNCHANGED <<poller, twin, lag, entry>>
                   ELSE Enter(a.poll[1].response, a.poll[1].time)
    /\ UNCHANGED <<now, stub, replies, simulates, concvars>>

\* time passes while the poller is suspended in a query or a sleep
Tick ==
    /\ pc = "wait_for_tx"
    /\ now < poller.wake
    /\ now' = now + 1
    /\ UNCHANGED <<pc, op, result, poller, twin, stub, replies, lag, broadcasts,
                   simulates, entry, sent, wait_timeout, concvars>>

\* lines 147-165: get_tx_by_hash returns, and the match on its status runs to
\* a return or into the sleep; the node then holds its next answer
QueryReturn ==
    /\ pc = "wait_for_tx"
    /\ poller.pc = "query"
    /\ now = poller.wake
    /\ \E j \in 0..MaxJitter, alt \in Swap(stub) :
        LET status == get_tx_by_hash(poller.queried, stub)
            p == MatchStatus(poller, status, now, j)
            q == MatchStatus(twin, get_tx_by_hash(twin.queried, alt), now, j)
        IN  /\ Resume(p, q)
            /\ replies' = Append(replies, status)
            /\ lag' = IF p.pc = "sleep" THEN lag + j ELSE lag
            /\ IF p.pc = "sleep" THEN stub' \in NodeAnswers ELSE stub' = stub
    /\ UNCHANGED <<now, op, broadcasts, simulates, entry, sent, wait_timeout,
                   concvars>>

\* lines 165, 145-147, 167-170: the sleep ends and the loop condition is read
SleepReturn ==
    /\ pc = "wait_for_tx"
    /\ poller.pc = "sleep"
    /\ now = poller.wake
    /\ \E l \in 0..MaxLatency :
        LET p == LoopHead(poller, now, l)
            q == LoopHead(twin, now, l)
        IN  /\ Resume(p, q)
            /\ lag' = IF p.pc = "query" THEN lag + l ELSE lag
    /\ UNCHANGED <<now, op, stub, replies, broadcasts, simulates, entry, sent,
                   wait_timeout, concvars>>

Next ==
    \/ CallSendTransaction
    \/ CallSimulateTx
    \/ CallWaitForTx
    \/ CallSendTokens
    \/ Tick
    \/ QueryReturn
    \/ SleepReturn

Spec == Init /\ [][Next]_vars

\* Spec where every query returns and every sleep ends: the clock advances
\* while the poller is suspended, and an await that is due is resumed
FairSpec ==
    /\ Spec
    /\ WF_vars(Tick)
    /\ WF_vars(QueryReturn)
    /\ WF_vars(SleepReturn)

\* ------------------------------------------------- concurrent lifecycles
\* Several callers each broadcast their own transaction and wait for it, on
\* the one clock and against the one node.
seqvars == <<pc, op, result, poller, stub, replies, lag, broadcasts, simulates,
             twin, entry, sent, wait_timeout>>

\* largest timeout handed to wait_for_tx by a concurrent caller, in ticks
MaxConcTimeout == 3

\* the answers of the node in the concurrent runs
ConcAnswers ==
    {[kind |-> "Found", code |-> 0, raw_log |-> 0],
     [kind |-> "Status", code |-> "NotFound"],
     [kind |-> "Status", code |-> "PermissionDenied"],
     [kind |-> "Connection"]}

\* Store keeping start in a place all calls share
Store_SharedStart(cs, i, p) ==
    [k \in Calls |-> IF k = i THEN p ELSE [cs[k] EXCEPT !.start = p.start]]

\* lines 141-144: response, timeout and start are locals of the call: the
\* frame p of call i replaces its own frame and no other
Store(cs, i, p) == [cs EXCEPT ![i] = p]

Waiting(i) == logs[i].stage = "waiting"

\* call i has moved to frame p, having asked and been answered as in g
ConcResume(i, p, g) ==
    /\ calls' = Store(calls, i, p)
    /\ logs' = [logs EXCEPT ![i] =
                  [g EXCEPT !.stage = IF p.pc = "returned" THEN "done" ELSE "waiting",
                            !.result = IF p.pc = "returned" THEN p.ret ELSE NoResult,
                            !.at = now,
                            !.asked = IF p.queries > Len(@)
                                      THEN Append(@, p.queried) ELSE @]]

\* caller i calls send_transaction for its transaction
ConcSendTransaction(i) ==
    /\ logs[i].stage = "idle"
    /\ \E conn \in ConnectOutcomes,
          reply \in {b \in BroadcastOutcomes :
                       (b.kind = "Ok" /\ b.value.tx_response # None)
                           => b.value.tx_response[1].txhash = HashOf(i)} :
        LET r == send_transaction(conn, reply) IN
        logs' = [logs EXCEPT ![i] =
                   [@ EXCEPT !.stage = IF r.ret.kind = "Ok" THEN "accepted" ELSE "done",
                             !.broadcasts = @ + r.rpcs,
                             !.result = r.ret]]
    /\ UNCHANGED <<now, calls, stubs, seqvars>>

\* caller i calls wait_for_tx with the response its broadcast returned
ConcWaitForTx(i) ==
    /\ logs[i].stage = "accepted"
    /\ \E timeout \in 0..MaxConcTimeout, l \in 0..MaxLatency :
        LET response == logs[i].result.value
            p == wait_for_tx(response, timeout, now, l)
        IN  ConcResume(i, p, [logs[i] EXCEPT !.entry =
                                [kind |-> "Entered", response |-> response,
                                 timeout |-> timeout, start |-> now]])
    /\ UNCHANGED <<now, stubs, seqvars>>

\* lines 147-165 in call i
ConcQueryReturn(i) ==
    /\ Waiting(i)
    /\ calls[i].pc = "query"
    /\ now = calls[i].wake
    /\ \E j \in 0..MaxJitter :
        LET hash == calls[i].queried
            status == get_tx_by_hash(hash, stubs[hash])
            p == MatchStatus(calls[i], status, now, j)
        IN  /\ ConcResume(i, p, [logs[i] EXCEPT !.replies = Append(@, status)])
            /\ IF p.pc = "sleep"
               THEN \E a \in ConcAnswers : stubs' = [stubs EXCEPT ![hash] = a]
               ELSE stubs' = stubs
    /\ UNCHANGED <<now, seqvars>>

\* lines 165, 145-147, 167-170 in call i
ConcSleepReturn(i) ==
    /\ Waiting(i)
    /\ calls[i].pc = "sleep"
    /\ now = calls[i].wake
    /\ \E l \in 0..MaxLatency :
        ConcResume(i, LoopHead(calls[i], now, l), logs[i])
    /\ UNCHANGED <<now, stubs, seqvars>>

\* time passes while every call that is suspended has time left to wait
ConcTick ==
    /\ \E i \in Calls : Waiting(i)
    /\ \A i \in Calls : Waiting(i) => now < calls[i].wake
    /\ now' = now + 1
    /\ UNCHANGED <<calls, stubs, logs, seqvars>>

ConcInit ==
    /\ now = 0
    /\ pc = "idle"
    /\ op = "none"
    /\ result = NoResult
    /\ poller = NoPoller
    /\ twin = NoPoller
    /\ stub = [kind |-> "Empty"]
    /\ replies = << >>
    /\ lag = 0
    /\ broadcasts = 0
    /\ simulates = 0
    /\ entry = NoResult
    /\ sent = NoResult
    /\ wait_timeout = None
    /\ calls = [i \in Calls |-> NoPoller]
    /\ stubs \in [Hashes -> ConcAnswers]
    /\ logs = [i \in Calls |-> NoLog]

ConcNext ==
    \/ \E i \in Calls : ConcSendTransaction(i)
    \/ \E i \in Calls : ConcWaitForTx(i)
    \/ \E i \in Calls : ConcQueryReturn(i)
    \/ \E i \in Calls : ConcSleepReturn(i)
    \/ ConcTick

SpecConc == ConcInit /\ [][ConcNext]_vars

\* ----------------------------------------------------------------- claims
\* shapes of a status returned by get_tx_by_hash
Populated(s) == s.kind = "Ok" /\ s.value.tx_response # None
NotFound(s) == s = Err(RequestError("NotFound"))
AbsentStatus(s) ==
    s \in {Ok([tx_response |-> None]), Err(RequestError("NotFound")),
           Err(RequestError("Unknown")), Err(RequestError("InvalidArgument"))}
FatalStatus(s) ==
    /\ s.kind = "Err"
    /\ s.error.variant = "RequestError"
    /\ s.error.code \notin {"NotFound", "Unknown", "InvalidArgument"}
OtherError(s) == s.kind = "Err" /\ s.error.variant # "RequestError"

Returned == poller.pc = "returned"
AllNotFound == \A i \in 1..Len(replies) : NotFound(replies[i])
IsTransactionFailed(r) == r.kind = "Err" /\ r.error.variant = "TransactionFailed"

\* C1: a populated response with a nonzero result code that a query of
\* wait_for_tx returns is reported as TransactionFailed, and wait_for_tx
\* returns Ok only with a response the classifier accepts.
C1_PolledFailureIsReported ==
    Returned =>
        /\ \A i \in 1..Len(replies) :
              (Populated(replies[i]) /\ replies[i].value.tx_response[1].code # 0)
                  => IsTransactionFailed(result)
        /\ result.kind = "Ok" => Classify(result.value) = Ok(result.value)

\* C2: when every query answered NotFound, wait_for_tx returns
\* TransactionFailed with the response it was given and the timeout it was
\* given as the time.
C2_AllNotFoundTimesOut ==
    (Returned /\ AllNotFound)
        => result = Err(TransactionFailed(entry.response, entry.timeout))

C2_Witness ==
    /\ Returned /\ AllNotFound /\ Len(replies) >= 2
    /\ lag > 0
    /\ result = Err(TransactionFailed(entry.response, entry.timeout))
    /\ now - entry.start > entry.timeout

\* C3 as stated: when every query answered NotFound, wait_for_tx has issued
\* at least floor(timeout / 1 second) queries when it returns, whatever the
\* latency of the queries.
C3_Original ==
    (Returned /\ AllNotFound)
        => poller.queries >= entry.timeout \div from_secs(1)

\* C3 amended: when every query answered NotFound, the queries issued, one
\* second each, and the time spent in query round trips and oversleeping add
\* up to at least the timeout; so at least floor(timeout / 1 second) queries
\* are issued when the queries return at once and the sleeps last one second.
C3_QueriesCoverTimeout ==
    (Returned /\ AllNotFound)
        => /\ poller.queries * from_secs(1) + lag >= entry.timeout
           /\ lag = 0 => poller.queries >= entry.timeout \div from_secs(1)

C3_Witness ==
    /\ Returned /\ AllNotFound
    /\ lag > 0 /\ poller.queries >= 1
    /\ poller.queries < entry.timeout \div from_secs(1)

\* the first get_tx_by_hash of this call returns, or would return, a
\* populated response
FirstWouldBePopulated ==
    IF replies = << >> THEN stub.kind = "Found" ELSE Populated(replies[1])

\* C4 as stated: when the first query would return a populated response,
\* wait_for_tx returns that response after one query and no sleep.
C4_Original ==
    (Returned /\ FirstWouldBePopulated)
        => /\ Len(replies) = 1
           /\ result = Ok(replies[1].value.tx_response[1])
           /\ poller.queries = 1 /\ poller.sleeps = 0

\* C4 amended: called with a timeout above zero, when the first query
\* returns a populated response, wait_for_tx returns that response after
\* one query and no sleep.
C4_FirstPopulatedReturnsAtOnce ==
    (entry.kind = "Entered" /\ entry.timeout > 0 /\ FirstWouldBePopulated)
        => /\ poller.queries = 1 /\ poller.sleeps = 0
           /\ Returned => /\ Len(replies) = 1
                          /\ result = Ok(replies[1].value.tx_response[1])
           /\ ~Returned => replies = << >>

C4_Witness ==
    /\ Returned /\ entry.timeout > 0 /\ Len(replies) = 1
    /\ Populated(replies[1])
    /\ result = Ok(replies[1].value.tx_response[1])
    /\ result.value # entry.response
    /\ poller.queries = 1 /\ poller.sleeps = 0

\* C5: a query that fails with a status other than NotFound, Unknown and
\* InvalidArgument is the last one: wait_for_tx returns with no sleep after
\* it, TransactionFailed with the response it was given and the time elapsed
\* since its start.
C5_FatalStatusFailsFast ==
    \A i \in 1..Len(replies) :
        FatalStatus(replies[i])
            => /\ i = Len(replies)
               /\ Returned
               /\ result = Err(TransactionFailed(entry.response, now - entry.start))
               /\ poller.queries = i /\ poller.sleeps = i - 1

C5_Witness ==
    /\ Returned /\ Len(replies) = 2 /\ FatalStatus(replies[2])
    /\ result = Err(TransactionFailed(entry.response, now - entry.start))
    /\ now - entry.start < entry.timeout
    /\ now - entry.start > 0

\* C6: a query that fails with an error that is not a status error is the
\* last one: wait_for_tx returns that error itself, with no sleep after it.
C6_OtherErrorPropagates ==
    \A i \in 1..Len(replies) :
        OtherError(replies[i])
            => /\ i = Len(replies)
               /\ Returned
               /\ result = replies[i]
               /\ poller.queries = i /\ poller.sleeps = i - 1

C6_Witness ==
    /\ Returned /\ Len(replies) = 2 /\ OtherError(replies[2])
    /\ result = Err(ConnectionError)
    /\ now - entry.start < entry.timeout

\* the replies so far are absent ones followed by a populated one
AbsentThenPopulated ==
    /\ Len(replies) >= 1
    /\ Populated(replies[Len(replies)])
    /\ \A i \in 1..(Len(replies) - 1) : AbsentStatus(replies[i])

\* C7: after k absent replies and then a populated one, wait_for_tx returns
\* the populated response, having made k+1 queries and slept k times, one
\* second (and any lag) per absent reply.
C7_RetriesUntilPopulated ==
    AbsentThenPopulated
        => /\ Returned
           /\ result = Ok(replies[Len(replies)].value.tx_response[1])
           /\ poller.queries = Len(replies)
           /\ poller.sleeps = Len(replies) - 1
           /\ now - entry.start = poller.sleeps * from_secs(1) + lag

C7_Witness ==
    /\ AbsentThenPopulated /\ Returned
    /\ Len(replies) = 3 /\ NotFound(replies[1]) /\ NotFound(replies[2])
    /\ entry.timeout = from_secs(3)
    /\ result.kind = "Ok" /\ result.value.code = 0
    /\ now - entry.start = from_secs(2)

\* C8: the four absent replies are interchangeable: the run in which each
\* absent reply is replaced by any other absent reply is in the same state
\* as the poller at every step, no absent reply makes wait_for_tx return
\* (after one the poller sleeps, and can only return by the timeout), and
\* the sleeps begun are as many as the absent replies.
C8_AbsentInterchangeable ==
    /\ twin = poller
    /\ poller.sleeps = Cardinality({i \in 1..Len(replies) : AbsentStatus(replies[i])})
    /\ \A i \in 1..Len(replies) :
          AbsentStatus(replies[i])
              => /\ poller.sleeps >= i
                 /\ (i = Len(replies) /\ Returned)
                       => result = Err(TransactionFailed(entry.response, entry.timeout))

C8_Witness ==
    /\ Returned /\ Len(replies) = 3
    /\ replies[1] = Ok([tx_response |-> None])
    /\ replies[2] = Err(RequestError("Unknown"))
    /\ replies[3] = Err(RequestError("InvalidArgument"))
    /\ twin = poller
    /\ poller.sleeps = 3

\* C9: a call issues at most one broadcast_tx and at most one simulate RPC;
\* simulate_tx and wait_for_tx issue no broadcast_tx, however many queries
\* wait_for_tx makes.
C9_FireOnce ==
    /\ broadcasts <= 1
    /\ simulates <= 1
    /\ op \in {"simulate_tx", "wait_for_tx"} => broadcasts = 0
    /\ op \in {"send_transaction", "send_tokens", "wait_for_tx"} => simulates = 0
    /\ (op \in {"send_transaction", "send_tokens"} /\ sent # NoResult) => broadcasts = 1

C9_Witness ==
    /\ op = "send_tokens" /\ pc = "done"
    /\ broadcasts = 1
    /\ poller.queries >= 3
    /\ IsTransactionFailed(result)

\* C10: for a populated broadcast response, send_transaction returns
\* InsufficientFees with the fee info when the response carries one,
\* whatever its code; otherwise TransactionFailed with the response and time
\* zero when its code is not zero; otherwise the response itself.
C10_ClassificationOrder ==
    (op = "send_transaction" /\ sent.kind = "Ok" /\ sent.value.tx_response # None)
        => LET response == sent.value.tx_response[1]
               fees == determine_min_fees_and_gas(response)
           IN  /\ pc = "done"
               /\ fees # None => result = Err(InsufficientFees(fees[1]))
               /\ (fees = None /\ response.code # 0)
                     => result = Err(TransactionFailed(response, 0))
               /\ (fees = None /\ response.code = 0) => result = Ok(response)

C10_Witness ==
    /\ op = "send_transaction" /\ pc = "done"
    /\ sent.kind = "Ok" /\ sent.value.tx_response # None
    /\ sent.value.tx_response[1].code # 0
    /\ sent.value.tx_response[1].raw_log # 0
    /\ result.kind = "Err" /\ result.error.variant = "InsufficientFees"

\* the RPC of send_transaction or simulate_tx completed with a reply that
\* lacks its payload (tx_response, gas_info)
Malformed ==
    /\ sent.kind = "Ok"
    /\ IF op = "simulate_tx"
       THEN sent.value.gas_info = None
       ELSE sent.value.tx_response = None

\* C11: a broadcast or simulate reply without its payload makes
\* send_transaction, simulate_tx return an error value; no call ends without
\* returning a Result.
C11_MalformedReplyIsAnError ==
    /\ pc # "panicked"
    /\ Malformed => (pc = "done" /\ result.kind = "Err")

\* the last status get_tx_by_hash returned to the poller
Last == replies[Len(replies)]

\* the three kinds of outcome of wait_for_tx, each with what brings it about
Confirmed ==
    /\ replies # << >> /\ Populated(Last)
    /\ result = Ok(Last.value.tx_response[1])
Failed ==
    /\ replies # << >>
    /\ \/ /\ FatalStatus(Last)
          /\ result = Err(TransactionFailed(entry.response, now - entry.start))
       \/ /\ OtherError(Last)
          /\ result = Err(Last.error)
TimedOut ==
    /\ replies = << >> \/ AbsentStatus(Last)
    /\ now - entry.start >= entry.timeout
    /\ result = Err(TransactionFailed(entry.response, entry.timeout))

\* C12: what wait_for_tx returns is a confirmed success (the populated
\* response of its last query), a confirmed failure (of its last query) or the
\* timeout failure with the response it was given; it returns nothing else,
\* and it does not end without returning.
C12_ThreeOutcomes ==
    entry.kind = "Entered"
        => /\ pc \in {"wait_for_tx", "done"}
           /\ pc = "done" <=> Returned
           /\ Returned => (result = poller.ret /\ (Confirmed \/ Failed \/ TimedOut))
           /\ ~Returned => result = NoResult

C12_Witness ==
    /\ Returned /\ TimedOut
    /\ Len(replies) >= 2 /\ Last = Ok([tx_response |-> None])

\* the timeout has been reached or passed at the present clock
PastDeadline == entry.kind = "Entered" /\ now - entry.start >= entry.timeout

\* C14 as stated: a query is started only while now - start < timeout, and
\* once the timeout has been reached or passed no query is started and no
\* sleep is begun.
C14_Original ==
    [][/\ poller'.queries > poller.queries => now' - entry'.start < entry'.timeout
       /\ PastDeadline => /\ poller'.queries = poller.queries
                          /\ poller'.sleeps = poller.sleeps]_vars

\* C14 amended: a query is started only while now - start < timeout, and
\* once the timeout has been reached or passed no query is started (a sleep
\* is still begun then, when a query started before returns an absent reply).
C14_NoQueryPastDeadline ==
    [][/\ poller'.queries > poller.queries => now' - entry'.start < entry'.timeout
       /\ PastDeadline => poller'.queries = poller.queries]_vars

\* the poller is in a sleep that began when the timeout had passed
C14_Witness ==
    /\ poller.pc = "sleep"
    /\ poller.queries >= 2
    /\ poller.wake - from_secs(1) - MaxJitter >= entry.start + entry.timeout

\* C17: called with a timeout of zero, wait_for_tx makes no query and no
\* sleep and returns TransactionFailed with the response it was given and
\* time zero, also when the node holds a populated response.
C17_ZeroTimeout ==
    (entry.kind = "Entered" /\ entry.timeout = 0)
        => /\ Returned /\ pc = "done"
           /\ poller.queries = 0 /\ poller.sleeps = 0 /\ replies = << >>
           /\ now = entry.start
           /\ result = Err(TransactionFailed(entry.response, 0))

C17_Witness ==
    /\ entry.kind = "Entered" /\ entry.timeout = 0
    /\ stub.kind = "Found" /\ stub.code = 0 /\ stub.raw_log = 0
    /\ Returned /\ poller.queries = 0
    /\ result = Err(TransactionFailed(entry.response, 0))

\* C18: one wait_for_tx call makes at most ceil(timeout / 1 second) queries.
C18_QueriesAtMostCeiling ==
    entry.kind = "Entered"
        => poller.queries <= (entry.timeout + from_secs(1) - 1) \div from_secs(1)

C18_Witness ==
    /\ entry.kind = "Entered"
    /\ entry.timeout = from_secs(2) + 1
    /\ poller.queries = 3
    /\ Returned

\* C19: the deadline is not read when a query returns: a populated response
\* that arrives when the timeout has passed is returned as the success, a
\* fatal status that arrives then is reported with the time elapsed, which is
\* the timeout or more, and an absent reply that arrives then is slept on.
C19_LateReplyCounts ==
    (PastDeadline /\ replies # << >> /\ poller.queries = Len(replies))
        => /\ Populated(Last)
              => (Returned /\ result = Ok(Last.value.tx_response[1]))
           /\ FatalStatus(Last)
              => /\ Returned
                 /\ result = Err(TransactionFailed(entry.response, now - entry.start))
                 /\ result.error.time >= entry.timeout
           /\ (AbsentStatus(Last) /\ ~Returned) => poller.pc = "sleep"

C19_Witness ==
    /\ PastDeadline /\ lag > 0
    /\ Returned /\ replies # << >> /\ Populated(Last)
    /\ Len(replies) = 2
    /\ result = Ok(Last.value.tx_response[1])

\* the broadcast_tx of send_transaction returned a populated response
Broadcast == sent.kind = "Ok" /\ sent.value.tx_response # None
\* what send_transaction makes of it
Outcome == Classify(sent.value.tx_response[1])

\* C13: in send_tokens a query-by-hash is made only when the broadcast was
\* accepted and a wait timeout was given, and then for the accepted response
\* and that timeout; when send_transaction ends in an error or wait_timeout is
\* None no query is made and the caller receives the broadcast outcome.
C13_PollOnlyAfterAccepted ==
    op = "send_tokens"
        => /\ (poller.queries > 0 \/ entry.kind = "Entered")
                => /\ wait_timeout # None /\ Broadcast
                   /\ Outcome = Ok(entry.response)
                   /\ entry.timeout = wait_timeout[1]
           /\ (Broadcast /\ Outcome.kind = "Err")
                => (poller.queries = 0 /\ pc = "done" /\ result = Outcome)
           /\ sent.kind = "Err"
                => (poller.queries = 0 /\ pc = "done" /\ result = sent)
           /\ broadcasts = 0
                => (poller.queries = 0 /\ pc = "done" /\ result = Err(ConnectionError))
           /\ (Broadcast /\ Outcome.kind = "Ok" /\ wait_timeout = None)
                => (poller.queries = 0 /\ pc = "done" /\ result = Outcome)

C13_Witness ==
    /\ op = "send_tokens" /\ pc = "done"
    /\ wait_timeout = Some(from_secs(2))
    /\ Broadcast /\ IsTransactionFailed(Outcome)
    /\ result = Outcome
    /\ poller.queries = 0 /\ entry = NoResult

\* what call i returns, as its own arguments, its own replies and the clock
\* at its return decide it
OwnOutcome(g) ==
    IF g.replies # << >> /\ Populated(g.replies[Len(g.replies)])
    THEN Ok(g.replies[Len(g.replies)].value.tx_response[1])
    ELSE IF g.replies # << >> /\ FatalStatus(g.replies[Len(g.replies)])
    THEN Err(TransactionFailed(g.entry.response, g.at - g.entry.start))
    ELSE IF g.replies # << >> /\ OtherError(g.replies[Len(g.replies)])
    THEN Err(g.replies[Len(g.replies)].error)
    ELSE Err(TransactionFailed(g.entry.response, g.entry.timeout))

\* the frame of call i holds what call i was given, call i asked for its own
\* hash only, and its counts and its result follow from its own replies
OwnRun(i) ==
    LET c == calls[i]
        g == logs[i]
    IN  /\ g.broadcasts <= 1
        /\ g.entry.kind = "Entered"
            => /\ c.response = g.entry.response
               /\ c.timeout = g.entry.timeout
               /\ c.start = g.entry.start
               /\ g.entry.response.txhash = HashOf(i)
               /\ \A k \in 1..Len(g.asked) : g.asked[k] = HashOf(i)
               /\ \A k \in 1..Len(g.replies) :
                     Populated(g.replies[k])
                         => g.replies[k].value.tx_response[1].txhash = HashOf(i)
               /\ c.queries = Len(g.asked)
               /\ Len(g.replies) = c.queries - (IF c.pc = "query" THEN 1 ELSE 0)
               /\ c.sleeps = Cardinality({k \in 1..Len(g.replies) :
                                             AbsentStatus(g.replies[k])})
               /\ c.queries <= (g.entry.timeout + from_secs(1) - 1) \div from_secs(1)
               /\ g.stage = "done" <=> c.pc = "returned"
               /\ g.stage = "done" => (g.result = c.ret /\ g.result = OwnOutcome(g))

\* C16: in every interleaving of concurrent lifecycles, each poller keeps the
\* arguments it was given, asks for the hash of its own response only, and its
\* result, query count and reported time are those its own response, timeout
\* and replies and the clock decide.
C16_NoInterference == \A i \in Calls : OwnRun(i)

\* two lifecycles that overlapped in time, one confirmed and one timed out
C16_Witness ==
    /\ logs[1].stage = "done" /\ logs[2].stage = "done"
    /\ logs[1].entry.kind = "Entered" /\ logs[2].entry.kind = "Entered"
    /\ logs[1].entry.start < logs[2].entry.start
    /\ logs[2].entry.start < logs[1].at
    /\ Len(logs[1].asked) = 2 /\ Len(logs[2].asked) = 2
    /\ logs[1].result.kind = "Ok"
    /\ logs[2].result = Err(TransactionFailed(logs[2].entry.response, logs[2].entry.timeout))

\* C15: when every query returns and every sleep ends, a call of wait_for_tx
\* returns whatever the node answers, and a reply that is not absent is the
\* last one: the poller retries after absent replies only.
C15_Terminates ==
    /\ (pc = "wait_for_tx") ~> (pc = "done" /\ Returned /\ poller.ret # NoResult)
    /\ [](\A k \in 1..Len(replies) :
             ~AbsentStatus(replies[k]) => (k = Len(replies) /\ Returned))

\* a poller that retried after each kind of absent reply and then returned
C15_Witness ==
    /\ Returned
    /\ poller.sleeps >= 2
    /\ \E k \in 1..Len(replies) : replies[k] = Ok([tx_response |-> None])
    /\ \E k \in 1..Len(replies) : replies[k] = Err(RequestError("Unknown"))
    /\ ~AbsentStatus(replies[Len(replies)])

=============================================================================
